---- MODULE Spec2Model ----
(***************************************************************************)
(* A model of smappy's Smappee client (src/smappy/smappy.py): one object   *)
(* holding client credentials and an OAuth2 session (access token, refresh *)
(* token, expiration time), the `authenticated` guard that runs before the *)
(* four data operations, the two token grants, the actuator stubs and the  *)
(* time-conversion helper.                                                 *)
(*                                                                         *)
(* Every method is cut at its statements: a thread's pc names the source   *)
(* line it is about to run.  The server and the clock are the environment: *)
(* a token POST is answered by any grant response (well-formed or lacking  *)
(* keys) or fails in transport, a GET by any body or a transport failure,  *)
(* and the UTC clock only moves forward.                                   *)
(*                                                                         *)
(* Spec runs one caller (the library's single-threaded use); SpecConc runs *)
(* two callers on the same object.                                         *)
(***************************************************************************)
EXTENDS Integers, Sequences, FiniteSets, TLC

VARIABLES
    client_id,              \* self.client_id
    client_secret,          \* self.client_secret
    access_token,           \* self.access_token
    refresh_token,          \* self.refresh_token
    token_expiration_time,  \* self.token_expiration_time: <<>> is None, <<n>> is time n
    now,                    \* dt.datetime.utcnow(), in seconds
    grants,                 \* number of grant responses the token endpoint has delivered
    at_src,                 \* serial of the grant response access_token was read from
    rt_src,                 \* serial of the grant response refresh_token was read from
    exp_src,                \* serial of the grant response the expiration was computed from
    raced,                  \* two token grants were in flight on the object at once
    pc,                     \* per caller: the statement it is about to run
    op,                     \* per caller: the method it is in
    args,                   \* per caller: the arguments of the call
    j,                      \* per caller: the local j = r.json() of a token grant
    headers,                \* per caller: the local headers of a data operation
    sent,                   \* per caller: the requests this call has sent, in order
    outcome,                \* per caller: "running", "ok" or the exception raised
    ret                     \* per caller: the value returned

session == <<access_token, refresh_token, token_expiration_time>>
provenance == <<at_src, rt_src, exp_src>>
locals == <<pc, op, args, j, headers, sent, outcome, ret>>
vars == <<client_id, client_secret, access_token, refresh_token,
          token_expiration_time, now, grants, at_src, rt_src, exp_src, raced,
          pc, op, args, j, headers, sent, outcome, ret>>

(* ---------------------------------------------------------------- bounds *)

MaxTime == 2
MaxExpiresIn == 1
MaxGrants == 2
MaxGrantsConc == 3

(* ------------------------------------------------------ values and inputs *)

Threads == {1, 2}
SeqThreads == {1}

NoToken == "None"
NoTime == <<>>
AccessTokens == {"T1", "T2"}
RefreshTokens == {"R1", "R2"}
ExpiresIn == 0..MaxExpiresIn

ClientIds == {"a"}
ClientSecrets == {"b"}
Usernames == {"u"}
Passwords == {"p"}
ServiceLocationIds == {42}
ApplianceIds == {7}
Aggregations == {3}
MaxNumbers == {<<>>, <<5>>}
GetBodies == {"json"}

\* A time argument: an int (epoch milliseconds), a datetime (v: microseconds
\* since the epoch) or a value of another type.
TimeInputs ==
    {[type |-> "int", v |-> 1000], [type |-> "datetime", v |-> 1500999],
     [type |-> "datetime", v |-> -1500], [type |-> "str", v |-> 0]}

GrantKeys == {"access_token", "refresh_token", "expires_in"}
KeySets == {GrantKeys, GrantKeys \ {"access_token"}, GrantKeys \ {"refresh_token"},
            GrantKeys \ {"expires_in"}, {}}

\* The JSON bodies the token endpoint can answer with; an absent key carries
\* a fixed filler that nothing reads.
GrantBody(keys, a, r, e) ==
    [keys |-> keys,
     access_token |-> IF "access_token" \in keys THEN a ELSE NoToken,
     refresh_token |-> IF "refresh_token" \in keys THEN r ELSE NoToken,
     expires_in |-> IF "expires_in" \in keys THEN e ELSE 0]
Responses ==
    {GrantBody(k, a, r, e) : k \in KeySets, a \in AccessTokens,
                             r \in RefreshTokens, e \in ExpiresIn}
ValidResponses == {b \in Responses : b.keys = GrantKeys}
ImmediateResponses == {b \in ValidResponses : b.expires_in = 0}

NoResponse == [id |-> 0, keys |-> {}, access_token |-> NoToken,
               refresh_token |-> NoToken, expires_in |-> 0]
NoArgs == [none |-> TRUE]
NoHeaders == [none |-> TRUE]

GuardedOps == {"get_service_locations", "get_service_location_info",
               "get_consumption", "get_events"}
TimedOps == {"get_consumption", "get_events"}
TokenOps == {"authenticate", "re_authenticate"}
WritePhases == {"set_access", "set_refresh", "set_expiry"}
GrantPhases == {"reauth_post"} \cup WritePhases

(* --------------------------------------------------------- pure functions *)

\* authenticated.wrapper's test: self.token_expiration_time >= dt.datetime.utcnow()
\* (faulty variant: the comparison turned round)
GuardFiresInverted(exp, t) == exp[1] < t
GuardFires(exp, t) == exp[1] >= t

\* _set_token_expiration_time: utcnow() + timedelta(0, expires_in)
\* (faulty variant: the clock reading left out)
ExpirationTimeNoClock(t, expires_in) == <<expires_in>>
ExpirationTime(t, expires_in) == <<t + expires_in>>

\* headers = {"Authorization": "Bearer {}".format(self.access_token)}
BearerHeaders(tok) == [Authorization |-> <<"Bearer", tok>>]

\* int(x): truncation toward zero of n / d, d > 0
TruncDiv(n, d) == IF n >= 0 THEN n \div d ELSE -((-n) \div d)

\* _to_milliseconds: int(time.timestamp() * 1e3) for a datetime (timestamp()
\* is v / 10^6 seconds, so the product is v / 1000, taken exactly here), the
\* value itself for an int, NotImplementedError for anything else.
\* (faulty variant: an int taken for seconds)
ToMillisecondsScaled(time) ==
    IF time.type = "datetime" THEN [raised |-> FALSE, v |-> TruncDiv(time.v, 1000)]
    ELSE IF time.type = "int" THEN [raised |-> FALSE, v |-> time.v * 1000]
    ELSE [raised |-> TRUE, v |-> 0]
ToMilliseconds(time) ==
    IF time.type = "datetime" THEN [raised |-> FALSE, v |-> TruncDiv(time.v, 1000)]
    ELSE IF time.type = "int" THEN [raised |-> FALSE, v |-> time.v]
    ELSE [raised |-> TRUE, v |-> 0]

\* the form data of the two grants
PasswordGrantData(username, password) ==
    [grant_type |-> "password", client_id |-> client_id,
     client_secret |-> client_secret, username |-> username, password |-> password]
RefreshGrantData ==
    [grant_type |-> "refresh_token", refresh_token |-> refresh_token,
     client_id |-> client_id, client_secret |-> client_secret]

\* the URL, and the query parameters, of each data operation
DataUrl(o, a) ==
    CASE o = "get_service_locations" -> [base |-> "servicelocation", id |-> <<>>, leaf |-> ""]
      [] o = "get_service_location_info" ->
            [base |-> "servicelocation", id |-> <<a.service_location_id>>, leaf |-> "info"]
      [] o = "get_consumption" ->
            [base |-> "servicelocation", id |-> <<a.service_location_id>>, leaf |-> "consumption"]
      [] o = "get_events" ->
            [base |-> "servicelocation", id |-> <<a.service_location_id>>, leaf |-> "events"]
DataParams(o, a) ==
    CASE o = "get_consumption" ->
            [aggregation |-> a.aggregation, from |-> a.start, to |-> a.end]
      [] o = "get_events" ->
            [from |-> a.start, to |-> a.end, applianceId |-> a.appliance_id,
             maxNumber |-> a.max_number]
      [] OTHER -> [none |-> TRUE]

(* ------------------------------------------------------------------ state *)

\* Smappee.__init__: credentials stored, session empty; no caller is in a call.
Init ==
    /\ client_id \in ClientIds
    /\ client_secret \in ClientSecrets
    /\ access_token = NoToken
    /\ refresh_token = NoToken
    /\ token_expiration_time = NoTime
    /\ now = 0
    /\ grants = 0
    /\ at_src = 0 /\ rt_src = 0 /\ exp_src = 0
    /\ raced = FALSE
    /\ pc = [t \in Threads |-> "idle"]
    /\ op = [t \in Threads |-> "none"]
    /\ args = [t \in Threads |-> NoArgs]
    /\ j = [t \in Threads |-> NoResponse]
    /\ headers = [t \in Threads |-> NoHeaders]
    /\ sent = [t \in Threads |-> <<>>]
    /\ outcome = [t \in Threads |-> "none"]
    /\ ret = [t \in Threads |-> "None"]

\* a caller enters method o with arguments a, at statement p
Enter(t, o, a, p) ==
    /\ pc[t] = "idle"
    /\ pc' = [pc EXCEPT ![t] = p]
    /\ op' = [op EXCEPT ![t] = o]
    /\ args' = [args EXCEPT ![t] = a]
    /\ outcome' = [outcome EXCEPT ![t] = "running"]
    /\ UNCHANGED <<j, headers, sent, ret>>

\* the call ends: it returns value r (out = "ok") or raises out
Finish(t, out, r) ==
    /\ pc' = [pc EXCEPT ![t] = "done"]
    /\ outcome' = [outcome EXCEPT ![t] = out]
    /\ ret' = [ret EXCEPT ![t] = r]

\* the UTC clock advances
Tick ==
    /\ now < MaxTime
    /\ now' = now + 1
    /\ UNCHANGED <<client_id, client_secret, session, grants, provenance, raced, locals>>

(* ------------------------------------------------------------ token grants *)

\* authenticate(username, password) is called
CallAuthenticate(t, username, password) ==
    /\ Enter(t, "authenticate", [username |-> username, password |-> password], "auth_post")
    /\ UNCHANGED <<client_id, client_secret, session, now, grants, provenance, raced>>

\* re_authenticate() is called by the caller
CallReAuthenticate(t) ==
    /\ Enter(t, "re_authenticate", NoArgs, "reauth_post")
    /\ UNCHANGED <<client_id, client_secret, session, now, grants, provenance, raced>>

\* requests.post(url, data=data) and r.json(): the request goes out with the
\* form data, and the endpoint answers with body b (its grant number grants + 1)
\* or, with failed, the transport raises.  The endpoint delivers at most cap grants.
TokenPost(t, data, b, failed, cap) ==
    /\ grants < cap
    /\ sent' = [sent EXCEPT ![t] = Append(@, [verb |-> "POST", url |-> "token",
                                               data |-> data, rt_src |-> rt_src])]
    /\ raced' = (raced \/ \E u \in Threads \ {t} : pc[u] \in WritePhases)
    /\ IF failed
         THEN /\ Finish(t, "RequestException", "None")
              /\ UNCHANGED <<grants, j>>
         ELSE /\ grants' = grants + 1
              /\ j' = [j EXCEPT ![t] =
                          [id |-> grants + 1, keys |-> b.keys,
                           access_token |-> b.access_token,
                           refresh_token |-> b.refresh_token,
                           expires_in |-> b.expires_in]]
              /\ pc' = [pc EXCEPT ![t] = "set_access"]
              /\ UNCHANGED <<outcome, ret>>
    /\ UNCHANGED <<client_id, client_secret, session, now, provenance, op, args, headers>>

\* authenticate, lines 65-74
AuthPost(t, b, failed, cap) ==
    /\ pc[t] = "auth_post"
    /\ TokenPost(t, PasswordGrantData(args[t].username, args[t].password), b, failed, cap)

\* re_authenticate, lines 106-114
ReAuthPost(t, b, failed, cap) ==
    /\ pc[t] = "reauth_post"
    /\ TokenPost(t, RefreshGrantData, b, failed, cap)

\* self.access_token = j['access_token']
\* (faulty variant: the assignment left out)
SetAccessTokenSkipped(t) ==
    /\ pc[t] = "set_access"
    /\ IF "access_token" \in j[t].keys
         THEN /\ pc' = [pc EXCEPT ![t] = "set_refresh"]
              /\ UNCHANGED <<access_token, at_src, outcome, ret>>
         ELSE /\ Finish(t, "KeyError", "None")
              /\ UNCHANGED <<access_token, at_src>>
    /\ UNCHANGED <<client_id, client_secret, refresh_token, token_expiration_time,
                   now, grants, rt_src, exp_src, raced, op, args, j, headers, sent>>
SetAccessToken(t) ==
    /\ pc[t] = "set_access"
    /\ IF "access_token" \in j[t].keys
         THEN /\ access_token' = j[t].access_token
              /\ at_src' = j[t].id
              /\ pc' = [pc EXCEPT ![t] = "set_refresh"]
              /\ UNCHANGED <<outcome, ret>>
         ELSE /\ Finish(t, "KeyError", "None")
              /\ UNCHANGED <<access_token, at_src>>
    /\ UNCHANGED <<client_id, client_secret, refresh_token, token_expiration_time,
                   now, grants, rt_src, exp_src, raced, op, args, j, headers, sent>>

\* self.refresh_token = j['refresh_token']
\* (faulty variant: a refresh token already stored is kept)
SetRefreshTokenKeepsOld(t) ==
    /\ pc[t] = "set_refresh"
    /\ IF "refresh_token" \in j[t].keys
         THEN /\ refresh_token' = IF refresh_token = NoToken
                                    THEN j[t].refresh_token ELSE refresh_token
              /\ rt_src' = IF refresh_token = NoToken THEN j[t].id ELSE rt_src
              /\ pc' = [pc EXCEPT ![t] = "set_expiry"]
              /\ UNCHANGED <<outcome, ret>>
         ELSE /\ Finish(t, "KeyError", "None")
              /\ UNCHANGED <<refresh_token, rt_src>>
    /\ UNCHANGED <<client_id, client_secret, access_token, token_expiration_time,
                   now, grants, at_src, exp_src, raced, op, args, j, headers, sent>>
SetRefreshToken(t) ==
    /\ pc[t] = "set_refresh"
    /\ IF "refresh_token" \in j[t].keys
         THEN /\ refresh_token' = j[t].refresh_token
              /\ rt_src' = j[t].id
              /\ pc' = [pc EXCEPT ![t] = "set_expiry"]
              /\ UNCHANGED <<outcome, ret>>
         ELSE /\ Finish(t, "KeyError", "None")
              /\ UNCHANGED <<refresh_token, rt_src>>
    /\ UNCHANGED <<client_id, client_secret, access_token, token_expiration_time,
                   now, grants, at_src, exp_src, raced, op, args, j, headers, sent>>

\* self._set_token_expiration_time(expires_in=j['expires_in']); then the grant
\* returns: to its caller, or into the guarded method the wrapper goes on to.
SetTokenExpirationTime(t) ==
    /\ pc[t] = "set_expiry"
    /\ IF "expires_in" \in j[t].keys
         THEN /\ token_expiration_time' = ExpirationTime(now, j[t].expires_in)
              /\ exp_src' = j[t].id
              /\ IF op[t] \in TokenOps
                   THEN Finish(t, "ok", "None")
                   ELSE /\ pc' = [pc EXCEPT ![t] =
                                     IF op[t] \in TimedOps THEN "convert" ELSE "headers"]
                        /\ UNCHANGED <<outcome, ret>>
         ELSE /\ Finish(t, "KeyError", "None")
              /\ UNCHANGED <<token_expiration_time, exp_src>>
    /\ UNCHANGED <<client_id, client_secret, access_token, refresh_token,
                   now, grants, at_src, rt_src, raced, op, args, j, headers, sent>>

(* ------------------------------------------------- guard and data operations *)

\* one of the four @authenticated methods is called with arguments a
CallGuarded(t, o, a) ==
    /\ o \in GuardedOps
    /\ Enter(t, o, a, "guard")
    /\ UNCHANGED <<client_id, client_secret, session, now, grants, provenance, raced>>

\* authenticated.wrapper, lines 22-25: comparing None with a datetime raises
\* TypeError; otherwise re_authenticate() runs when the test holds, and then
\* (or at once) the wrapped method.
Guard(t) ==
    /\ pc[t] = "guard"
    /\ IF token_expiration_time = NoTime
         THEN Finish(t, "TypeError", "None")
         ELSE /\ pc' = [pc EXCEPT ![t] =
                           IF GuardFires(token_expiration_time, now) THEN "reauth_post"
                           ELSE IF op[t] \in TimedOps THEN "convert" ELSE "headers"]
              /\ UNCHANGED <<outcome, ret>>
    /\ UNCHANGED <<client_id, client_secret, session, now, grants, provenance, raced,
                   op, args, j, headers, sent>>

\* get_consumption lines 172-173, get_events lines 204-205
Convert(t) ==
    /\ pc[t] = "convert"
    /\ LET s == ToMilliseconds(args[t].start)
           e == ToMilliseconds(args[t].end)
       IN  IF s.raised \/ e.raised
             THEN /\ Finish(t, "NotImplementedError", "None")
                  /\ UNCHANGED args
             ELSE /\ args' = [args EXCEPT ![t].start = s.v, ![t].end = e.v]
                  /\ pc' = [pc EXCEPT ![t] = "headers"]
                  /\ UNCHANGED <<outcome, ret>>
    /\ UNCHANGED <<client_id, client_secret, session, now, grants, provenance, raced,
                   op, j, headers, sent>>

\* headers = {"Authorization": "Bearer {}".format(self.access_token)}
\* (faulty variant: the token is consumed by the header)
BuildHeadersClearsToken(t) ==
    /\ pc[t] = "headers"
    /\ headers' = [headers EXCEPT ![t] = BearerHeaders(access_token)]
    /\ pc' = [pc EXCEPT ![t] = "get"]
    /\ access_token' = NoToken
    /\ UNCHANGED <<client_id, client_secret, refresh_token, token_expiration_time, now,
                   grants, provenance, raced, op, args, j, sent, outcome, ret>>
BuildHeaders(t) ==
    /\ pc[t] = "headers"
    /\ headers' = [headers EXCEPT ![t] = BearerHeaders(access_token)]
    /\ pc' = [pc EXCEPT ![t] = "get"]
    /\ UNCHANGED <<client_id, client_secret, session, now, grants, provenance, raced,
                   op, args, j, sent, outcome, ret>>

\* r = requests.get(url, headers=headers[, params=params]); return r.json():
\* the body comes back as it is, or the transport raises.
\* (faulty variant: the request is sent twice)
SendGetTwice(t, body, failed) ==
    /\ pc[t] = "get"
    /\ LET g == [verb |-> "GET", url |-> DataUrl(op[t], args[t]), headers |-> headers[t],
                 params |-> DataParams(op[t], args[t])]
       IN  sent' = [sent EXCEPT ![t] = Append(Append(@, g), g)]
    /\ IF failed THEN Finish(t, "RequestException", "None") ELSE Finish(t, "ok", body)
    /\ UNCHANGED <<client_id, client_secret, session, now, grants, provenance, raced,
                   op, args, j, headers>>
SendGet(t, body, failed) ==
    /\ pc[t] = "get"
    /\ sent' = [sent EXCEPT ![t] = Append(@, [verb |-> "GET", url |-> DataUrl(op[t], args[t]),
                                               headers |-> headers[t],
                                               params |-> DataParams(op[t], args[t])])]
    /\ IF failed THEN Finish(t, "RequestException", "None") ELSE Finish(t, "ok", body)
    /\ UNCHANGED <<client_id, client_secret, session, now, grants, provenance, raced,
                   op, args, j, headers>>

(* ------------------------------------------------------- stubs and helper *)

\* actuator_on() / actuator_off(): raise NotImplementedError()
CallActuator(t, o) ==
    /\ o \in {"actuator_on", "actuator_off"}
    /\ pc[t] = "idle"
    /\ op' = [op EXCEPT ![t] = o]
    /\ Finish(t, "NotImplementedError", "None")
    /\ UNCHANGED <<client_id, client_secret, session, now, grants, provenance, raced,
                   args, j, headers, sent>>

\* _to_milliseconds(time) called on its own
CallToMilliseconds(t, time) ==
    /\ pc[t] = "idle"
    /\ op' = [op EXCEPT ![t] = "_to_milliseconds"]
    /\ args' = [args EXCEPT ![t] = [time |-> time]]
    /\ LET m == ToMilliseconds(time)
       IN  IF m.raised THEN Finish(t, "NotImplementedError", "None")
                       ELSE Finish(t, "ok", m.v)
    /\ UNCHANGED <<client_id, client_secret, session, now, grants, provenance, raced,
                   j, headers, sent>>

\* the caller has the result (or the exception) and is free to call again
Return(t) ==
    /\ pc[t] = "done"
    /\ pc' = [pc EXCEPT ![t] = "idle"]
    /\ op' = [op EXCEPT ![t] = "none"]
    /\ args' = [args EXCEPT ![t] = NoArgs]
    /\ j' = [j EXCEPT ![t] = NoResponse]
    /\ headers' = [headers EXCEPT ![t] = NoHeaders]
    /\ sent' = [sent EXCEPT ![t] = <<>>]
    /\ outcome' = [outcome EXCEPT ![t] = "none"]
    /\ ret' = [ret EXCEPT ![t] = "None"]
    /\ UNCHANGED <<client_id, client_secret, session, now, grants, provenance, raced>>

(* ---------------------------------------------------------- specifications *)

\* the argument records of the guarded methods
TimedArgs(o) ==
    IF o = "get_consumption"
      THEN {[service_location_id |-> i, start |-> s, end |-> e, aggregation |-> g,
             given_start |-> s, given_end |-> e] :
               i \in ServiceLocationIds, s \in TimeInputs, e \in TimeInputs,
               g \in Aggregations}
      ELSE {[service_location_id |-> i, appliance_id |-> a, start |-> s, end |-> e,
             max_number |-> m, given_start |-> s, given_end |-> e] :
               i \in ServiceLocationIds, a \in ApplianceIds, s \in TimeInputs,
               e \in TimeInputs, m \in MaxNumbers}
GuardedArgs(o) ==
    CASE o = "get_service_locations" -> {NoArgs}
      [] o = "get_service_location_info" ->
            {[service_location_id |-> i] : i \in ServiceLocationIds}
      [] OTHER -> TimedArgs(o)

\* one step of caller t; the token endpoint answers from the bodies in R
Step(t, R, Ops, cap) ==
    \/ \E u \in Usernames, p \in Passwords : CallAuthenticate(t, u, p)
    \/ CallReAuthenticate(t)
    \/ \E o \in Ops : \E a \in GuardedArgs(o) : CallGuarded(t, o, a)
    \/ \E b \in R, failed \in BOOLEAN : AuthPost(t, b, failed, cap)
    \/ \E b \in R, failed \in BOOLEAN : ReAuthPost(t, b, failed, cap)
    \/ SetAccessToken(t)
    \/ SetRefreshToken(t)
    \/ SetTokenExpirationTime(t)
    \/ Guard(t)
    \/ BuildHeaders(t)
    \/ \E body \in GetBodies, failed \in BOOLEAN : SendGet(t, body, failed)
    \/ Return(t)

\* one caller: every method, every response
Next ==
    \/ Tick
    \/ \E t \in SeqThreads : Step(t, Responses, GuardedOps, MaxGrants)
    \/ \E t \in SeqThreads : Convert(t)
    \/ \E t \in SeqThreads : \E o \in {"actuator_on", "actuator_off"} : CallActuator(t, o)
    \/ \E t \in SeqThreads : \E x \in TimeInputs : CallToMilliseconds(t, x)

Spec == Init /\ [][Next]_vars

\* two callers on one object: the grants and the guarded listing, well-formed
\* responses, the clock standing still
NextConc ==
    \E t \in Threads : Step(t, ImmediateResponses, {"get_service_locations"}, MaxGrantsConc)

SpecConc == Init /\ [][NextConc]_vars

(* ------------------------------------------------------------- properties *)

Last(s) == s[Len(s)]
Stepped(t) == pc'[t] # pc[t]
Returned(t, o) == pc[t] = "done" /\ op[t] = o /\ outcome[t] = "ok"
IsRefreshPost(r) == r.verb = "POST" /\ r.url = "token" /\ r.data.grant_type = "refresh_token"
Expired == token_expiration_time # NoTime /\ token_expiration_time[1] < now
\* the statement of a grant that stores the expiration ends the grant without raising
GrantCompletes(t) ==
    /\ pc[t] = "set_expiry"
    /\ Stepped(t)
    /\ ~(pc'[t] = "done" /\ outcome'[t] = "KeyError")

\* C1: when authenticate returns, access_token and refresh_token are the
\* values of the grant response it received and token_expiration_time is the
\* clock reading at which the response was processed plus its expires_in; a
\* response holding all three keys never makes authenticate raise KeyError.
C1_AuthenticateStoresGrant ==
    [][\A t \in Threads :
          (op[t] = "authenticate" /\ pc[t] \in WritePhases /\ Stepped(t)) =>
              /\ (pc'[t] = "done" /\ outcome'[t] = "KeyError") => j[t].keys # GrantKeys
              /\ GrantCompletes(t) =>
                    /\ pc'[t] = "done" /\ outcome'[t] = "ok"
                    /\ access_token' = j[t].access_token
                    /\ refresh_token' = j[t].refresh_token
                    /\ token_expiration_time' = <<now + j[t].expires_in>>]_vars

\* authenticate has returned over an already populated session, at a time
\* other than 0 and with a non-zero validity
C1_Witness ==
    /\ Returned(1, "authenticate")
    /\ j[1].id = 2 /\ at_src = 2 /\ now > 0 /\ j[1].expires_in > 0
    /\ sent[1][1].rt_src = 1

\* C2: re_authenticate posts the refresh token stored at that moment; when
\* its grant completes, all three session fields hold what that one response
\* gave; and whenever the expiration comes from the most recent grant
\* response, so do both tokens.
C2_RefreshReplacesWholesale ==
    [][\A t \in Threads :
          /\ (pc[t] = "reauth_post" /\ Stepped(t)) =>
                /\ IsRefreshPost(Last(sent'[t]))
                /\ Last(sent'[t]).data.refresh_token = refresh_token
          /\ (GrantCompletes(t) /\ IsRefreshPost(Last(sent[t]))) =>
                /\ access_token' = j[t].access_token
                /\ refresh_token' = j[t].refresh_token
                /\ token_expiration_time' = <<now + j[t].expires_in>>
                /\ at_src' = j[t].id /\ rt_src' = j[t].id /\ exp_src' = j[t].id
                /\ j[t].id = grants
          /\ (grants' > 0 /\ exp_src' = grants') => (at_src' = grants' /\ rt_src' = grants')]_vars

\* re_authenticate has returned after an earlier grant had filled the session
C2_Witness ==
    /\ Returned(1, "re_authenticate")
    /\ j[1].id = 2 /\ at_src = 2 /\ rt_src = 2 /\ exp_src = 2
    /\ sent[1][1].rt_src = 1

\* C3: the guard runs re_authenticate exactly when the stored expiration time
\* is earlier than the current time.
C3_GuardRefreshesIffExpired ==
    [][\A t \in Threads :
          (pc[t] = "guard" /\ Stepped(t) /\ token_expiration_time # NoTime) =>
              (pc'[t] = "reauth_post" <=> token_expiration_time[1] < now)]_vars

\* C4: the GET of a data operation carries Bearer <the access token stored
\* when it is sent>, it is the last request of the call, and when the call
\* refreshed, the refresh POST went first and the token carried is the one
\* that grant response gave.
C4_GetCarriesStoredToken ==
    [][\A t \in Threads :
          (pc[t] = "get" /\ Stepped(t)) =>
              LET n == Len(sent'[t])
                  g == sent'[t][n]
              IN  /\ g.verb = "GET"
                  /\ g.headers = [Authorization |-> <<"Bearer", access_token>>]
                  /\ \A i \in 1..(n - 1) : IsRefreshPost(sent'[t][i])
                  /\ n > 1 => /\ access_token = j[t].access_token
                              /\ at_src = j[t].id
                              /\ j[t].id = grants]_vars

\* a guarded operation has returned after its guard refreshed the session
C4_Witness ==
    /\ Returned(1, "get_consumption")
    /\ Len(sent[1]) = 2 /\ j[1].id = 2
    /\ sent[1][2].headers = [Authorization |-> <<"Bearer", j[1].access_token>>]

\* C5 as claimed: every API method that returns has made exactly one round trip.
C5_OneRoundTrip ==
    \A t \in Threads :
        (pc[t] = "done" /\ outcome[t] = "ok" /\ op[t] \in TokenOps \cup GuardedOps) =>
            Len(sent[t]) = 1

\* C5 as amended: a grant method that returns has made exactly one round trip,
\* its token POST; a guarded operation that returns has made exactly one GET,
\* its last request, preceded by one refresh POST exactly when its guard
\* re-authenticated.
C5_RoundTrips ==
    \A t \in Threads :
        (pc[t] = "done" /\ outcome[t] = "ok") =>
            /\ op[t] \in TokenOps =>
                  /\ Len(sent[t]) = 1 /\ sent[t][1].verb = "POST"
                  /\ sent[t][1].data.grant_type =
                        (IF op[t] = "authenticate" THEN "password" ELSE "refresh_token")
            /\ op[t] \in GuardedOps =>
                  /\ Len(sent[t]) = (IF j[t].id = 0 THEN 1 ELSE 2)
                  /\ Last(sent[t]).verb = "GET"
                  /\ j[t].id # 0 => IsRefreshPost(sent[t][1])

\* a guarded operation has returned after two round trips: the refresh POST
\* of its guard and its GET
C5_Witness ==
    /\ Returned(1, "get_service_locations")
    /\ Len(sent[1]) = 2

\* C6: a step changes access_token, refresh_token or token_expiration_time
\* only when it is one of the three storing statements of a grant; the
\* credentials never change.
C6_SessionFrame ==
    [][/\ session' # session =>
              \E t \in Threads : pc[t] \in WritePhases /\ Stepped(t)
       /\ client_id' = client_id
       /\ client_secret' = client_secret]_vars

\* a data operation has run its body on a populated session without a refresh
C6_Witness ==
    /\ Returned(1, "get_events")
    /\ Len(sent[1]) = 1 /\ access_token # NoToken /\ refresh_token # NoToken

\* C7: the helper returns an int unchanged (so converting its result again
\* changes nothing) and raises NotImplementedError for a value that is neither
\* an int nor a datetime; get_consumption and get_events raise it exactly when
\* start or end is such a value, and otherwise send from/to equal to the ints
\* they were given.
Unsupported(x) == x.type \notin {"int", "datetime"}
C7_TimeConversion ==
    \A t \in Threads :
        pc[t] = "done" =>
            /\ op[t] = "_to_milliseconds" =>
                  /\ args[t].time.type = "int" =>
                        /\ outcome[t] = "ok"
                        /\ ret[t] = args[t].time.v
                        /\ ToMilliseconds([type |-> "int", v |-> ret[t]]) =
                              [raised |-> FALSE, v |-> ret[t]]
                  /\ Unsupported(args[t].time) <=> outcome[t] = "NotImplementedError"
            /\ op[t] \in TimedOps =>
                  LET bad == Unsupported(args[t].given_start) \/ Unsupported(args[t].given_end)
                      gets == {i \in 1..Len(sent[t]) : sent[t][i].verb = "GET"}
                  IN  /\ outcome[t] = "NotImplementedError" => bad
                      /\ bad => (outcome[t] # "ok" /\ gets = {})
                      /\ (bad /\ outcome[t] \notin {"TypeError", "KeyError", "RequestException"})
                            => outcome[t] = "NotImplementedError"
                      /\ \A i \in gets :
                            /\ args[t].given_start.type = "int" =>
                                  sent[t][i].params.from = args[t].given_start.v
                            /\ args[t].given_end.type = "int" =>
                                  sent[t][i].params.to = args[t].given_end.v

\* get_consumption has returned for two int times
C7_Witness ==
    /\ Returned(1, "get_consumption")
    /\ args[1].given_start.type = "int" /\ args[1].given_end.type = "int"
    /\ Last(sent[1]).params.from = 1000

C9_MixOnlyByRace ==
    ((\A t \in Threads : pc[t] \notin WritePhases) /\ ~(at_src = rt_src /\ rt_src = exp_src))
        => raced

\* both callers' refresh grants have returned, both posted the same stored
\* refresh token, and access_token comes from another response than
\* refresh_token
C9_Witness ==
    /\ \A t \in Threads :
          /\ pc[t] = "done" /\ outcome[t] = "ok"
          /\ sent[t] # <<>> /\ IsRefreshPost(sent[t][1])
    /\ sent[1][1].rt_src = sent[2][1].rt_src /\ sent[1][1].rt_src # 0
    /\ sent[1][1].data.refresh_token = sent[2][1].data.refresh_token
    /\ at_src # rt_src
    /\ {at_src, rt_src} = {j[1].id, j[2].id}

\* C10: a grant that raises KeyError has stored nothing of its response, and
\* a guarded operation whose refresh raised has sent no GET.
C10_FailedGrantStoresNothing ==
    \A t \in Threads :
        (pc[t] = "done" /\ outcome[t] = "KeyError") =>
            /\ at_src # j[t].id /\ rt_src # j[t].id /\ exp_src # j[t].id
            /\ \A i \in 1..Len(sent[t]) : sent[t][i].verb # "GET"

====
